---- MODULE Spec2Model ----
(***************************************************************************)
(* Model of mms_msg's overlap-constrained offset sampler                   *)
(* (sampling/pattern/meeting/overlap_sampler.py) and of the reverberant    *)
(* scenario synthesizer (simulation/reverberant.py).                       *)
(***************************************************************************)
EXTENDS Integers, Sequences, FiniteSets, TLC

VARIABLES
    cfg,        \* the frozen UniformOverlapSampler dataclass
    examples,   \* placed utterances: <<[speaker_id, offset, num_samples]>>
    budget,     \* how many more utterances the meeting asks for
    pc,         \* position inside OverlapSampler.__call__
    cur,        \* current_source['speaker_id']
    maxov,      \* maximum_overlap handed to sample_offset
    attempts,   \* rejected candidates so far (the loop variable `_`)
    draws,      \* number of calls made on rng
    shift,      \* the local `shift` of sample_offset once it is final
    branch,     \* which branch of sample_offset produced `shift`
    warned      \* warnings.warn(...) was called

VARIABLES
    ovIn,       \* arguments of a direct call of get_allowed_max_overlap
    ovRes       \* its results for the two concurrency bounds, in call order

VARIABLES
    chArgs,     \* arguments of get_channel_slice
    chOut       \* what the call did: its result or its exception

VARIABLES
    example,    \* the input of reverberant_scenario_map_fn
    rpc,        \* position inside reverberant_scenario_map_fn
    h,          \* the RIRs after the channel slice, shape (K, D, T)
    h_early,    \* the early-masked copy of h
    h_tail,     \* the tail-masked copy of h
    audio_data  \* the convolved signals written so far

VARIABLES
    rirIn,      \* arguments of a direct call of get_rir_start_sample
    rirOut      \* what the call did: its result or its exception

samplerVars == <<cfg, examples, budget, pc, cur, maxov, attempts, draws, shift, branch, warned>>
overlapVars == <<ovIn, ovRes>>
channelVars == <<chArgs, chOut>>
reverbVars == <<example, rpc, h, h_early, h_tail, audio_data>>
onsetVars == <<rirIn, rirOut>>

vars == <<samplerVars, overlapVars, channelVars, reverbVars, onsetVars>>

notSampler == <<overlapVars, channelVars, reverbVars, onsetVars>>
notOverlap == <<samplerVars, channelVars, reverbVars, onsetVars>>
notChannel == <<samplerVars, overlapVars, reverbVars, onsetVars>>
notReverb == <<samplerVars, overlapVars, channelVars, onsetVars>>
notOnset == <<samplerVars, overlapVars, channelVars, reverbVars>>

(***************************************************************************)
(* Bounds of the model.                                                    *)
(***************************************************************************)
MaxSpk == 2          \* max_concurrent_spk ranges over 1..MaxSpk
MaxLen == 2          \* utterance lengths range over 1..MaxLen
MaxUtt == 2          \* utterances sampled after the first one
MaxSilence == 2      \* maximum_silence <= MaxSilence
MaxOverlap == 2      \* maximum_overlap <= MaxOverlap
MaxMargin == 1       \* margin <= MaxMargin
MaxPrev == 3         \* previously placed utterances in a direct call
MaxEnd == 2          \* end times in a direct call are <= MaxEnd
MaxChannels == 3     \* total_num_channels <= MaxChannels
MaxRir == 2          \* rir_length <= MaxRir
MaxOnsetLen == 5     \* a 1-D RIR given to get_rir_start_sample has 0..MaxOnsetLen samples
MaxOnsetCells == 6   \* a multi-channel RIR given to it has at most MaxOnsetCells samples
MaxEarly == 1        \* early_rir_samples <= MaxEarly

Speakers == {"a", "b", "c"}
NoSpeaker == "None"  \* the padding id None

\* for _ in range(100)
NumRejections == 100

Max(a, b) == IF a >= b THEN a ELSE b
Min(a, b) == IF a <= b THEN a ELSE b

RECURSIVE SeqMax(_)
SeqMax(s) == IF Len(s) = 1 THEN s[1] ELSE Max(s[1], SeqMax(Tail(s)))

(***************************************************************************)
(* get_allowed_max_overlap                                                 *)
(***************************************************************************)
\* [x] * n for a list: the empty list when n <= 0
Repeat(x, n) == [i \in 1..Max(n, 0) |-> x]

\* speaker_ids + [None] * (max_concurrent_spk - len(speaker_end))
PadIds(speaker_end, speaker_ids, K) ==
    speaker_ids \o Repeat(NoSpeaker, K - Len(speaker_end))

\* np.concatenate([speaker_end, np.zeros_like(..., shape=max(K - n, 0))])
PadEnds(speaker_end, K) ==
    speaker_end \o Repeat(0, Max(K - Len(speaker_end), 0))

\* np.argsort(a): an index sequence that sorts a ascending. The default
\* kind is not a stable sort, so equal end times may come in any order.
RECURSIVE SortedOrders(_, _)
SortedOrders(a, rest) ==
    IF rest = {} THEN {<< >>}
    ELSE LET lows == {i \in rest : \A j \in rest : a[i] <= a[j]}
         IN  UNION {{<<i>> \o t : t \in SortedOrders(a, rest \ {i})} : i \in lows}

ArgSorts(a) == SortedOrders(a, DOMAIN a)

\* x[-K:] for K >= 1
LastK(x, K) ==
    LET n == Len(x)
        k == Min(K, n)
    IN  [i \in 1..k |-> x[n - k + i]]

\* variant: the index is taken without flipping the list
ForwardIndex(ids, s) ==
    (CHOOSE i \in DOMAIN ids : ids[i] = s /\ \A j \in 1..(i - 1) : ids[j] # s) - 1

\* list(speaker_ids)[::-1].index(current_speaker_id), 0-based
ReversedIndex(ids, s) ==
    LET n == Len(ids)
        last == CHOOSE i \in 1..n : ids[i] = s /\ \A j \in (i + 1)..n : ids[j] # s
    IN  n - last

\* variant: the current speaker's own utterances are not looked for
EffectiveCountNoSelf(tail_ids, K, current_speaker_id) == K

\* if current_speaker_id in speaker_ids: max_concurrent_spk = spk_pos + 1
EffectiveCount(tail_ids, K, current_speaker_id) ==
    IF \E i \in DOMAIN tail_ids : tail_ids[i] = current_speaker_id
    THEN ReversedIndex(tail_ids, current_speaker_id) + 1
    ELSE K

\* speaker_end[-1] - speaker_end[-max_concurrent_spk]
OverlapOfTail(tail_end, eff) ==
    tail_end[Len(tail_end)] - tail_end[Len(tail_end) - eff + 1]

\* get_allowed_max_overlap, with idx the result of np.argsort on the padded ends
GetAllowedMaxOverlap(speaker_end, speaker_ids, K, current_speaker_id, idx) ==
    LET ids == PadIds(speaker_end, speaker_ids, K)
        ends == PadEnds(speaker_end, K)
        speaker_idx == LastK(idx, K)
        tail_end == [i \in DOMAIN speaker_idx |-> ends[speaker_idx[i]]]
        tail_ids == [i \in DOMAIN speaker_idx |-> ids[speaker_idx[i]]]
    IN  OverlapOfTail(tail_end, EffectiveCount(tail_ids, K, current_speaker_id))

\* _get_valid_overlap_region: offset + num_samples of every placed utterance
SpeakerEnd(ex) == [i \in DOMAIN ex |-> ex[i].offset + ex[i].num_samples]
SpeakerId(ex) == [i \in DOMAIN ex |-> ex[i].speaker_id]

(***************************************************************************)
(* UniformOverlapSampler                                                   *)
(***************************************************************************)
\* variant: minimum_silence is not compared with margin
PostInitNoMargin(c) ==
    /\ c.minimum_silence < c.maximum_silence
    /\ c.soft_minimum_overlap <= c.maximum_overlap
    /\ c.hard_minimum_overlap <= c.maximum_overlap

\* __post_init__
PostInit(c) ==
    /\ c.minimum_silence >= c.margin
    /\ c.minimum_silence < c.maximum_silence
    /\ c.soft_minimum_overlap <= c.maximum_overlap
    /\ c.hard_minimum_overlap <= c.maximum_overlap

\* The dataclass fields; p_silence is 0 or 1, and lo is the least value of
\* the silence fields and of margin.
ConfigSpace(lo) ==
    [max_concurrent_spk : 1..MaxSpk,
     p_silence : {0, 1},
     maximum_silence : lo..MaxSilence,
     maximum_overlap : (0 - 1)..MaxOverlap,
     minimum_silence : lo..MaxSilence,
     soft_minimum_overlap : (0 - 1)..MaxOverlap,
     hard_minimum_overlap : (0 - 1)..MaxOverlap,
     margin : lo..MaxMargin]

ValidConfigs(lo) == {c \in ConfigSpace(lo) : PostInit(c)}

\* rng.uniform(0, 1) lies in [0, 1): the model draws 0 or 1/2, as halves
UniformHalves == {0, 1}

\* rng.integers(low, high): low..high-1, and a ValueError when that is empty
Integers_(low, high) == low..(high - 1)

\* _sample_silence
SilenceRange(c) == Integers_(c.minimum_silence, c.maximum_silence)

\* _sample_overlap
OverlapRange(c) == Integers_(c.hard_minimum_overlap, c.maximum_overlap)

\* variant: the soft minimum is tested before the hard minimum
BranchSoftFirst(c, m) ==
    IF m <= c.soft_minimum_overlap THEN "deterministic"
    ELSE IF m <= c.hard_minimum_overlap THEN "silence"
    ELSE "rejection"

\* the if / elif / else of sample_offset
Branch(c, m) ==
    IF m <= c.hard_minimum_overlap THEN "silence"
    ELSE IF m <= c.soft_minimum_overlap THEN "deterministic"
    ELSE "rejection"

\* shift = max(self._sample_silence(rng), self.margin)
ClampSilence(c, silence) == Max(silence, c.margin)

\* shift = -maximum_overlap + self.margin
DeterministicShift(c, m) == -m + c.margin

\* variant: a candidate on the boundary is accepted
AcceptsBoundary(c, m, s) == s >= -m + c.margin

\* if shift > -maximum_overlap + self.margin: break
Accepts(c, m, s) == s > -m + c.margin

\* variant: one iteration too many
LoopContinuesOnceMore(n) == n <= NumRejections

\* for _ in range(100): another iteration after n rejected candidates
LoopContinues(n) == n < NumRejections

\* rng.uniform(0, 1) <= self.p_silence, with u in halves
PicksSilence(c, u) == u <= 2 * c.p_silence

(***************************************************************************)
(* State machine of one meeting: OverlapSampler.__call__ is invoked once   *)
(* per new utterance and the utterance is placed at the returned offset.   *)
(***************************************************************************)
\* the meeting so far: one utterance at offset 0; ids are only compared for
\* equality, so its speaker is called "a"
FirstUtterances ==
    {<<[speaker_id |-> "a", offset |-> 0, num_samples |-> n]>> : n \in 1..MaxLen}

SamplerStart(configs, calls) ==
    /\ cfg \in configs
    /\ examples \in FirstUtterances
    /\ budget = calls
    /\ pc = "idle"
    /\ cur = NoSpeaker
    /\ maxov = 0
    /\ attempts = 0
    /\ draws = 0
    /\ shift = 0
    /\ branch = "none"
    /\ warned = FALSE

\* OverlapSampler.__call__ up to the call of sample_offset
Call ==
    /\ pc = "idle"
    /\ budget > 0
    /\ \E s \in Speakers :
       \E idx \in ArgSorts(PadEnds(SpeakerEnd(examples), cfg.max_concurrent_spk)) :
          /\ cur' = s
          /\ maxov' = GetAllowedMaxOverlap(SpeakerEnd(examples), SpeakerId(examples),
                                           cfg.max_concurrent_spk, s, idx)
    /\ pc' = "sample_offset"
    /\ UNCHANGED <<cfg, examples, budget, attempts, draws, shift, branch, warned>>
    /\ UNCHANGED notSampler

\* sample_offset, first branch: sample silence and clamp it to the margin
SilenceBranch ==
    /\ pc = "sample_offset"
    /\ Branch(cfg, maxov) = "silence"
    /\ \E silence \in SilenceRange(cfg) : shift' = ClampSilence(cfg, silence)
    /\ draws' = draws + 1
    /\ branch' = "silence"
    /\ pc' = "shifted"
    /\ UNCHANGED <<cfg, examples, budget, cur, maxov, attempts, warned>>
    /\ UNCHANGED notSampler

\* sample_offset, second branch: the maximum possible overlap
DeterministicBranch ==
    /\ pc = "sample_offset"
    /\ Branch(cfg, maxov) = "deterministic"
    /\ shift' = DeterministicShift(cfg, maxov)
    /\ branch' = "deterministic"
    /\ pc' = "shifted"
    /\ UNCHANGED <<cfg, examples, budget, cur, maxov, attempts, draws, warned>>
    /\ UNCHANGED notSampler

\* one iteration of the for loop whose candidate comes from _sample_silence
AttemptSilence ==
    /\ pc = "sample_offset"
    /\ Branch(cfg, maxov) = "rejection"
    /\ LoopContinues(attempts)
    /\ \E u \in UniformHalves :
         /\ PicksSilence(cfg, u)
         /\ \E silence \in SilenceRange(cfg) :
              IF Accepts(cfg, maxov, silence)
              THEN /\ shift' = silence
                   /\ branch' = "accepted"
                   /\ pc' = "shifted"
                   /\ UNCHANGED attempts
              ELSE /\ attempts' = attempts + 1
                   /\ UNCHANGED <<shift, branch, pc>>
    /\ draws' = draws + 2
    /\ UNCHANGED <<cfg, examples, budget, cur, maxov, warned>>
    /\ UNCHANGED notSampler

\* one iteration of the for loop whose candidate comes from -_sample_overlap
AttemptOverlap ==
    /\ pc = "sample_offset"
    /\ Branch(cfg, maxov) = "rejection"
    /\ LoopContinues(attempts)
    /\ \E u \in UniformHalves :
         /\ ~PicksSilence(cfg, u)
         /\ OverlapRange(cfg) # {}
         /\ \E overlap \in OverlapRange(cfg) :
              IF Accepts(cfg, maxov, -overlap)
              THEN /\ shift' = -overlap
                   /\ branch' = "accepted"
                   /\ pc' = "shifted"
                   /\ UNCHANGED attempts
              ELSE /\ attempts' = attempts + 1
                   /\ UNCHANGED <<shift, branch, pc>>
    /\ draws' = draws + 2
    /\ UNCHANGED <<cfg, examples, budget, cur, maxov, warned>>
    /\ UNCHANGED notSampler

\* rng.integers(low, high) raises ValueError when low >= high, which
\* __post_init__ admits for hard_minimum_overlap = maximum_overlap
AttemptRaises ==
    /\ pc = "sample_offset"
    /\ Branch(cfg, maxov) = "rejection"
    /\ LoopContinues(attempts)
    /\ \E u \in UniformHalves : ~PicksSilence(cfg, u)
    /\ OverlapRange(cfg) = {}
    /\ draws' = draws + 2
    /\ pc' = "raised"
    /\ UNCHANGED <<cfg, examples, budget, cur, maxov, attempts, shift, branch, warned>>
    /\ UNCHANGED notSampler

\* the else of the for loop: warn and fall back to sampling silence
Fallback ==
    /\ pc = "sample_offset"
    /\ Branch(cfg, maxov) = "rejection"
    /\ ~LoopContinues(attempts)
    /\ warned' = TRUE
    /\ \E silence \in SilenceRange(cfg) : shift' = silence
    /\ draws' = draws + 1
    /\ branch' = "fallback"
    /\ pc' = "shifted"
    /\ UNCHANGED <<cfg, examples, budget, cur, maxov, attempts>>
    /\ UNCHANGED notSampler

RECURSIVE SeqMin(_)
SeqMin(s) == IF Len(s) = 1 THEN s[1] ELSE Min(s[1], SeqMin(Tail(s)))

\* variant: the shift is applied to the earliest end time
OffsetFromMin(ex, s) == SeqMin(SpeakerEnd(ex)) + s

\* offset = np.max(offset + num_samples) + shift
Offset(ex, s) == SeqMax(SpeakerEnd(ex)) + s

\* sample_offset and __call__ return, which ends their locals; the new
\* utterance is placed at the returned offset
Place ==
    /\ pc = "shifted"
    /\ \E n \in 1..MaxLen :
         examples' = Append(examples,
             [speaker_id |-> cur, offset |-> Offset(examples, shift), num_samples |-> n])
    /\ budget' = budget - 1
    /\ pc' = "idle"
    /\ cur' = NoSpeaker
    /\ maxov' = 0
    /\ attempts' = 0
    /\ draws' = 0
    /\ shift' = 0
    /\ branch' = "none"
    /\ warned' = FALSE
    /\ UNCHANGED cfg
    /\ UNCHANGED notSampler


(***************************************************************************)
(* Direct calls of get_allowed_max_overlap: the same history and speaker   *)
(* under two concurrency bounds K <= K'.                                   *)
(***************************************************************************)
EndTimes == (0 - 1)..MaxEnd
DirectSpeakers == {"a", "b"}

\* parallel speaker_end / speaker_ids of up to MaxPrev utterances, and two
\* bounds K <= K'
OverlapInputs ==
    UNION {
        [speaker_end : [1..n -> EndTimes],
         speaker_ids : [1..n -> DirectSpeakers],
         current_speaker_id : DirectSpeakers,
         bounds : {b \in (1..MaxPrev) \X (1..MaxPrev) : b[1] <= b[2]}]
        : n \in 0..MaxPrev}

OverlapStart ==
    /\ ovIn \in OverlapInputs
    /\ ovRes = << >>

OverlapIdle ==
    /\ ovIn = [speaker_end |-> << >>, speaker_ids |-> << >>,
               current_speaker_id |-> "a", bounds |-> <<1, 1>>]
    /\ ovRes = << >>

GetOverlap ==
    /\ Len(ovRes) < Len(ovIn.bounds)
    /\ LET K == ovIn.bounds[Len(ovRes) + 1]
       IN  \E idx \in ArgSorts(PadEnds(ovIn.speaker_end, K)) :
             ovRes' = Append(ovRes,
                 GetAllowedMaxOverlap(ovIn.speaker_end, ovIn.speaker_ids, K,
                                      ovIn.current_speaker_id, idx))
    /\ UNCHANGED ovIn
    /\ UNCHANGED notOverlap

(***************************************************************************)
(* get_channel_slice and its two callers                                   *)
(***************************************************************************)
NoneInt == 0 - 1     \* None where the code expects an int

\* channel_slice values: slice(start, stop), an int, None, or a string
PySlice(start, stop) == [type |-> "slice", start |-> start, stop |-> stop]
PyInt(n) == [type |-> "int", start |-> n, stop |-> n]
PyNone == [type |-> "None", start |-> NoneInt, stop |-> NoneInt]
PyStr(v) == [type |-> v, start |-> NoneInt, stop |-> NoneInt]

ChannelSlices ==
    {PySlice(a, b) : a \in 0..MaxChannels, b \in 0..MaxChannels}
    \cup {PyInt(n) : n \in 0..MaxChannels}
    \cup {PyNone, PyStr("all"), PyStr("one_random"), PyStr("first")}

ChannelArgs ==
    [channel_slice : ChannelSlices,
     total_num_channels : {NoneInt} \cup (1..MaxChannels),
     rng : {"None", "passed"},
     squeeze : BOOLEAN]

Returned(kind, start, stop, gen) ==
    [kind |-> kind, start |-> start, stop |-> stop, drew_from |-> gen]

\* get_channel_slice; channel is the value rng.integers(0, total) returns
GetChannelSlice(a, channel) ==
    LET cs == a.channel_slice
    IN  IF cs.type = "slice"
        THEN IF a.squeeze /\ cs.stop - cs.start = 1
             THEN Returned("int", cs.start, cs.start, "nothing")
             ELSE Returned("slice", cs.start, cs.stop, "nothing")
        ELSE IF cs.type = "int"
        THEN IF a.squeeze /\ cs.start = 1
             THEN Returned("int", 0, 0, "nothing")
             ELSE Returned("slice", NoneInt, cs.start, "nothing")
        ELSE IF cs.type = "None" \/ cs.type = "all"
        THEN Returned("slice", NoneInt, NoneInt, "nothing")
        ELSE IF cs.type = "one_random"
        THEN IF a.total_num_channels = NoneInt
             THEN Returned("ValueError", NoneInt, NoneInt, "nothing")
             ELSE LET gen == IF a.rng = "None" THEN "default_rng" ELSE "passed"
                  IN  IF a.squeeze
                      THEN Returned("int", channel, channel, gen)
                      ELSE Returned("slice", channel, channel + 1, gen)
        ELSE Returned("ValueError", NoneInt, NoneInt, "nothing")

\* the values rng.integers(0, total_num_channels) can return
ChannelDraws(a) ==
    IF a.channel_slice.type = "one_random" /\ a.total_num_channels # NoneInt
    THEN 0..(a.total_num_channels - 1)
    ELSE {0}

Pending == Returned("pending", NoneInt, NoneInt, "nothing")

ChannelStart ==
    /\ chArgs \in ChannelArgs
    /\ chOut = Pending

ChannelIdle ==
    /\ chArgs = [channel_slice |-> PyNone, total_num_channels |-> NoneInt,
                 rng |-> "None", squeeze |-> FALSE]
    /\ chOut = Pending

\* a call of get_channel_slice with the arguments as given
DirectCall ==
    /\ chOut = Pending
    /\ \E channel \in ChannelDraws(chArgs) : chOut' = GetChannelSlice(chArgs, channel)
    /\ UNCHANGED chArgs
    /\ UNCHANGED notChannel

\* reverberant_scenario_map_fn: get_channel_slice(channel_slice,
\* total_num_channels=h.shape[-2]), no rng and no squeeze
FromScenarioMapFn ==
    /\ chOut = Pending
    /\ chArgs.total_num_channels # NoneInt
    /\ LET a == [chArgs EXCEPT !.rng = "None", !.squeeze = FALSE]
       IN  /\ chArgs' = a
           /\ \E channel \in ChannelDraws(a) : chOut' = GetChannelSlice(a, channel)
    /\ UNCHANGED notChannel

\* slice_channel: rng = get_rng_example(...) exactly for 'one_random'
FromSliceChannel ==
    /\ chOut = Pending
    /\ chArgs.total_num_channels # NoneInt
    /\ LET a == [chArgs EXCEPT
                    !.rng = IF chArgs.channel_slice.type = "one_random"
                            THEN "passed" ELSE "None"]
       IN  /\ chArgs' = a
           /\ \E channel \in ChannelDraws(a) : chOut' = GetChannelSlice(a, channel)
    /\ UNCHANGED notChannel

(***************************************************************************)
(* reverberant_scenario_map_fn                                             *)
(***************************************************************************)
Abs(x) == IF x < 0 THEN 0 - x ELSE x

\* level_ratio=1e-1, as the fraction 1 / 10
LevelRatio == <<1, 10>>

\* np.argmax: the first index (1-based here) of a largest element
ArgMax(a) == CHOOSE i \in DOMAIN a :
                /\ \A j \in DOMAIN a : a[j] <= a[i]
                /\ \A j \in 1..(i - 1) : a[j] < a[i]

\* abs_h[:max_index + 1]: the indices (1-based here) up to and including the peak
Scanned(max_index) == 1..max_index

\* get_rir_start_sample of a non-empty 1-D RIR; the result is a 0-based index.
\* level_ratio is the fraction level_ratio[1] / level_ratio[2], level_ratio[2] > 0.
\* np.argmax of an all-False array is 0.
GetRirStartSample1D(hh, level_ratio) ==
    LET abs_h == [i \in DOMAIN hh |-> Abs(hh[i])]
        max_index == ArgMax(abs_h)
        max_abs_value == abs_h[max_index]
        larger_than_threshold ==
            [i \in Scanned(max_index) |->
                level_ratio[2] * abs_h[i] > level_ratio[1] * max_abs_value]
        hits == {i \in Scanned(max_index) : larger_than_threshold[i]}
    IN  IF hits = {} THEN 0
        ELSE (CHOOSE i \in hits : \A j \in hits : i <= j) - 1

\* get_rir_start_sample of a (D, T) RIR: the minimum over its channels
GetRirStartSample(hk, level_ratio) ==
    LET per_channel == {GetRirStartSample1D(hk[d], level_ratio) : d \in DOMAIN hk}
    IN  CHOOSE m \in per_channel : \A n \in per_channel : m <= n

\* rir_stop_sample = rir_start_sample + early_rir_samples, from the unsliced h
RirStopSample(ex) ==
    [k \in DOMAIN ex.rir |->
        GetRirStartSample(ex.rir[k], LevelRatio) + ex.early_rir_samples]

\* where a Python slice bound n falls in a sequence of length T
SliceIndex(n, T) == IF n < 0 THEN Max(T + n, 0) ELSE Min(n, T)

\* variant: the early mask keeps the sample at the stop index
EarlyMaskOffByOne(row, stop) ==
    [t \in DOMAIN row |-> IF t - 1 >= SliceIndex(stop + 1, Len(row)) THEN 0 ELSE row[t]]

\* row[stop:] = 0
EarlyMask(row, stop) ==
    [t \in DOMAIN row |-> IF t - 1 >= SliceIndex(stop, Len(row)) THEN 0 ELSE row[t]]

\* row[:stop] = 0
TailMask(row, stop) ==
    [t \in DOMAIN row |-> IF t - 1 < SliceIndex(stop, Len(row)) THEN 0 ELSE row[t]]

\* h_early[i, ..., rir_stop_sample[i]:] = 0 for every speaker i
MaskEarly(hh, stop) ==
    [k \in DOMAIN hh |-> [d \in DOMAIN hh[k] |-> EarlyMask(hh[k][d], stop[k])]]

\* h_tail[i, ..., :rir_stop_sample[i]] = 0 for every speaker i
MaskTail(hh, stop) ==
    [k \in DOMAIN hh |-> [d \in DOMAIN hh[k] |-> TailMask(hh[k][d], stop[k])]]

\* fftconvolve(s, h, axes=-1): the full linear convolution, exact on integers
RECURSIVE ConvSum(_, _, _, _)
ConvSum(src, row, n, i) ==
    IF i = 0 THEN 0
    ELSE (IF n - i + 1 \in DOMAIN row THEN src[i] * row[n - i + 1] ELSE 0)
         + ConvSum(src, row, n, i - 1)

Convolve(src, row) ==
    [n \in 1..(Len(src) + Len(row) - 1) |-> ConvSum(src, row, n, Len(src))]

\* get_convolved_signals: every source with every channel of its RIR
GetConvolvedSignals(src, hh) ==
    [k \in DOMAIN hh |-> [d \in DOMAIN hh[k] |-> Convolve(src[k], hh[k][d])]]

\* apply_scale
ApplyScale(x, scale) ==
    [k \in DOMAIN x |-> [d \in DOMAIN x[k] |-> [n \in DOMAIN x[k][d] |-> x[k][d][n] * scale[k]]]]

\* h[..., channel_slice, :] for the slice get_channel_slice returned
SliceChannels(hh, sl) ==
    LET D == Len(hh[1])
        lo == IF sl.start = NoneInt THEN 0 ELSE SliceIndex(sl.start, D)
        hi == IF sl.stop = NoneInt THEN D ELSE SliceIndex(sl.stop, D)
    IN  [k \in DOMAIN hh |-> [d \in 1..Max(hi - lo, 0) |-> hh[k][lo + d]]]

RirSamples == {0 - 20, 0, 1}
Signals == {<<1, 0 - 1>>, <<2, 0, 1>>}
Scales == {1, 2}
RirShapes == {<<1, 1>>, <<1, 2>>, <<2, 1>>}   \* (K, D)

\* the examples of the model; scale holds the factors get_scale returns
ReverbInputs ==
    UNION {
        [rir : [1..sh[1] -> [1..sh[2] -> [1..T -> RirSamples]]],
         original_source : [1..sh[1] -> Signals],
         scale : [1..sh[1] -> Scales],
         early_rir_samples : 0..MaxEarly,
         add_speech_reverberation_early : BOOLEAN,
         add_speech_reverberation_tail : BOOLEAN,
         channel_slice : {PyNone, PyStr("one_random")}]
        : sh \in RirShapes, T \in {MaxRir}}

NoSignals == << >>

ReverbStart ==
    /\ example \in ReverbInputs
    /\ rpc = "start"
    /\ h = example.rir
    /\ h_early = NoSignals
    /\ h_tail = NoSignals
    /\ audio_data = [original_reverberated |-> NoSignals,
                     original_reverberation_early |-> NoSignals,
                     original_reverberation_tail |-> NoSignals]

ReverbIdle ==
    /\ example = [channel_slice |-> PyNone]
    /\ rpc = "idle"
    /\ h = NoSignals
    /\ h_early = NoSignals
    /\ h_tail = NoSignals
    /\ audio_data = NoSignals

\* if channel_slice is not None: h = h[..., get_channel_slice(...), :]
SliceStep ==
    /\ rpc = "start"
    /\ IF example.channel_slice = PyNone
       THEN h' = h
       ELSE LET a == [channel_slice |-> example.channel_slice,
                      total_num_channels |-> Len(h[1]),
                      rng |-> "None", squeeze |-> FALSE]
            IN  \E channel \in ChannelDraws(a) :
                  h' = SliceChannels(h, GetChannelSlice(a, channel))
    /\ rpc' = "sliced"
    /\ UNCHANGED <<example, h_early, h_tail, audio_data>>
    /\ UNCHANGED notReverb

\* audio_data[ORIGINAL_REVERBERATED] = apply_scale(get_convolved_signals(h))
Reverberate ==
    /\ rpc = "sliced"
    /\ audio_data' = [audio_data EXCEPT !.original_reverberated =
           ApplyScale(GetConvolvedSignals(example.original_source, h), example.scale)]
    /\ rpc' = "reverberated"
    /\ UNCHANGED <<example, h, h_early, h_tail>>
    /\ UNCHANGED notReverb

\* if add_speech_reverberation_early: mask the tail and convolve
EarlyStep ==
    /\ rpc = "reverberated"
    /\ IF example.add_speech_reverberation_early
       THEN LET masked == MaskEarly(h, RirStopSample(example))
            IN  /\ h_early' = masked
                /\ audio_data' = [audio_data EXCEPT !.original_reverberation_early =
                       ApplyScale(GetConvolvedSignals(example.original_source, masked),
                                  example.scale)]
       ELSE UNCHANGED <<h_early, audio_data>>
    /\ rpc' = "early"
    /\ UNCHANGED <<example, h, h_tail>>
    /\ UNCHANGED notReverb

\* if add_speech_reverberation_tail: mask the early part and convolve
TailStep ==
    /\ rpc = "early"
    /\ IF example.add_speech_reverberation_tail
       THEN LET masked == MaskTail(h, RirStopSample(example))
            IN  /\ h_tail' = masked
                /\ audio_data' = [audio_data EXCEPT !.original_reverberation_tail =
                       ApplyScale(GetConvolvedSignals(example.original_source, masked),
                                  example.scale)]
       ELSE UNCHANGED <<h_tail, audio_data>>
    /\ rpc' = "done"
    /\ UNCHANGED <<example, h, h_early>>
    /\ UNCHANGED notReverb

(***************************************************************************)
(* get_rir_start_sample, called directly                                   *)
(***************************************************************************)
\* assert h.shape[0] < 20
AssertedRows == 20

RECURSIVE Flatten(_)
Flatten(s) == IF s = << >> THEN << >> ELSE Head(s) \o Flatten(Tail(s))

\* The argument h is held as nested sequences of depth three, a.ndim telling
\* how many of its axes exist: a 1-D RIR is a.h[1][1], a (D, T) RIR is a.h[1]
\* and a (K, D, T) RIR is a.h.
\* h.shape[0]
Shape0(a) ==
    IF a.ndim = 1 THEN Len(a.h[1][1]) ELSE IF a.ndim = 2 THEN Len(a.h[1]) ELSE Len(a.h)

\* np.reshape(h, (-1, h.shape[-1])): the rows of h in C order
Reshape(a) == Flatten(a.h)

Raised(exception) == [kind |-> exception, value |-> NoneInt]

\* get_rir_start_sample(h, level_ratio), with the exceptions it can raise:
\* the two asserts, and np.argmax's ValueError on an empty array
GetRirStartSampleCall(a) ==
    IF ~(a.level_ratio[1] < a.level_ratio[2]) THEN Raised("AssertionError")
    ELSE IF a.ndim > 1
    THEN IF ~(Shape0(a) < AssertedRows) THEN Raised("AssertionError")
         ELSE [kind |-> "returned",
               value |-> GetRirStartSample(Reshape(a), a.level_ratio)]
    ELSE IF Shape0(a) = 0 THEN Raised("ValueError")
    ELSE [kind |-> "returned", value |-> GetRirStartSample1D(a.h[1][1], a.level_ratio)]

\* sample values of a 1-D RIR, and of a multi-channel one
OnsetSamples == {0 - 10, 0, 1, 5, 10}
MultiSamples == {0 - 10, 0, 1}

\* level_ratio as a fraction: 0.1 (the default), 0.5, -0.1 and 1
LevelRatios == {<<1, 10>>, <<1, 2>>, <<0 - 1, 10>>, <<1, 1>>}

Rirs1D == UNION {[1..T -> OnsetSamples] : T \in 0..MaxOnsetLen}

\* shapes (D, T) of at most MaxOnsetCells samples
OnsetShapes ==
    {sh \in (1..MaxOnsetCells) \X (1..MaxOnsetCells) : sh[1] * sh[2] <= MaxOnsetCells}

Rirs2D == UNION {[1..sh[1] -> [1..sh[2] -> MultiSamples]] : sh \in OnsetShapes}

\* shapes (1, D, T) and (D, 1, T), with the samples of a (D, T) RIR
Rirs3D ==
    {<<hk>> : hk \in Rirs2D} \cup {[k \in DOMAIN hk |-> <<hk[k]>>] : hk \in Rirs2D}

\* shapes (19, 1) and (20, 1): around the bound of the assert
RirsTall ==
    {Repeat(row, n) : row \in [1..1 -> MultiSamples],
                      n \in {AssertedRows - 1, AssertedRows}}

OnsetArrays ==
    {[h |-> <<<<hh>>>>, ndim |-> 1] : hh \in Rirs1D}
        \cup {[h |-> <<hh>>, ndim |-> 2] : hh \in Rirs2D \cup RirsTall}
        \cup {[h |-> hh, ndim |-> 3] : hh \in Rirs3D}

OnsetInputs ==
    {[h |-> a.h, ndim |-> a.ndim, level_ratio |-> r] :
        a \in OnsetArrays, r \in LevelRatios}

OnsetStart ==
    /\ rirIn \in OnsetInputs
    /\ rirOut = [kind |-> "pending", value |-> NoneInt]

OnsetIdle ==
    /\ rirIn = [h |-> <<<<<<0>>>>>>, ndim |-> 1, level_ratio |-> LevelRatio]
    /\ rirOut = [kind |-> "idle", value |-> NoneInt]

CallGetRirStartSample ==
    /\ rirOut.kind = "pending"
    /\ rirOut' = GetRirStartSampleCall(rirIn)
    /\ UNCHANGED rirIn
    /\ UNCHANGED notOnset

(***************************************************************************)
(* Specifications                                                          *)
(***************************************************************************)
SamplerIdle ==
    /\ cfg = [max_concurrent_spk |-> 1, p_silence |-> 0, maximum_silence |-> 1,
              maximum_overlap |-> 0, minimum_silence |-> 0, soft_minimum_overlap |-> 0,
              hard_minimum_overlap |-> 0, margin |-> 0]
    /\ examples = << >>
    /\ budget = 0
    /\ pc = "off"
    /\ cur = NoSpeaker
    /\ maxov = 0
    /\ attempts = 0
    /\ draws = 0
    /\ shift = 0
    /\ branch = "none"
    /\ warned = FALSE

SamplerNext ==
    \/ Call
    \/ SilenceBranch
    \/ DeterministicBranch
    \/ AttemptSilence
    \/ AttemptOverlap
    \/ AttemptRaises
    \/ Fallback
    \/ Place

\* a meeting of MaxUtt sampled utterances, margin >= 0
Init == SamplerStart(ValidConfigs(0), MaxUtt) /\ OverlapIdle /\ ChannelIdle
        /\ ReverbIdle /\ OnsetIdle
Next == SamplerNext
Spec == Init /\ [][Next]_vars

\* one call of the sampler, negative margin and silence bounds included
InitSample ==
    SamplerStart(ValidConfigs(0 - 1), 1) /\ OverlapIdle /\ ChannelIdle
        /\ ReverbIdle /\ OnsetIdle
SpecSample == InitSample /\ [][Next]_vars

\* direct calls of get_allowed_max_overlap
InitOverlap == SamplerIdle /\ OverlapStart /\ ChannelIdle
        /\ ReverbIdle /\ OnsetIdle
NextOverlap == GetOverlap
SpecOverlap == InitOverlap /\ [][NextOverlap]_vars

\* get_channel_slice
InitChannel == SamplerIdle /\ OverlapIdle /\ ChannelStart
        /\ ReverbIdle /\ OnsetIdle
NextChannel == DirectCall \/ FromScenarioMapFn \/ FromSliceChannel
SpecChannel == InitChannel /\ [][NextChannel]_vars

\* reverberant_scenario_map_fn
InitReverb == SamplerIdle /\ OverlapIdle /\ ChannelIdle /\ ReverbStart /\ OnsetIdle
NextReverb == SliceStep \/ Reverberate \/ EarlyStep \/ TailStep
SpecReverb == InitReverb /\ [][NextReverb]_vars

\* get_rir_start_sample
InitOnset == SamplerIdle /\ OverlapIdle /\ ChannelIdle /\ ReverbIdle /\ OnsetStart
NextOnset == CallGetRirStartSample
SpecOnset == InitOnset /\ [][NextOnset]_vars

(***************************************************************************)
(* Properties                                                              *)
(***************************************************************************)
ActiveAt(ex, t) ==
    {i \in DOMAIN ex : ex[i].offset <= t /\ t < ex[i].offset + ex[i].num_samples}

Instants(ex) ==
    UNION {ex[i].offset..(ex[i].offset + ex[i].num_samples - 1) : i \in DOMAIN ex}

\* C1: with margin >= 0, at every time instant at most max_concurrent_spk of
\* the placed utterances [offset, offset + length) are active.
C1_ConcurrencyBound ==
    cfg.margin >= 0 =>
        \A t \in Instants(examples) :
            Cardinality(ActiveAt(examples, t)) <= cfg.max_concurrent_spk

\* C1 witness: under a bound of two a third speaker was sampled into
\* overlap and shares an instant with exactly one other utterance.
C1_Witness ==
    /\ pc = "idle"
    /\ cfg.max_concurrent_spk = 2
    /\ Len(examples) = 3
    /\ Cardinality({examples[i].speaker_id : i \in DOMAIN examples}) = 3
    /\ examples[2].offset < examples[1].offset + examples[1].num_samples
    /\ examples[3].offset < examples[2].offset + examples[2].num_samples
    /\ \E t \in Instants(examples) :
         3 \in ActiveAt(examples, t) /\ Cardinality(ActiveAt(examples, t)) = 2

\* C2: with margin >= 0, an utterance never starts before the end of an
\* earlier utterance of the same speaker.
C2_NoSelfOverlap ==
    cfg.margin >= 0 =>
        \A i \in DOMAIN examples : \A j \in DOMAIN examples :
            (i < j /\ examples[i].speaker_id = examples[j].speaker_id)
                => examples[j].offset >= examples[i].offset + examples[i].num_samples

\* C2 witness: a speaker returns exactly at the end of their own earlier
\* utterance while the other speaker is still active.
C2_Witness ==
    /\ pc = "idle"
    /\ Len(examples) = 3
    /\ examples[1].speaker_id = examples[3].speaker_id
    /\ examples[2].speaker_id # examples[3].speaker_id
    /\ examples[3].offset = examples[1].offset + examples[1].num_samples
    /\ examples[3].offset < examples[2].offset + examples[2].num_samples

\* C3 as stated: for max_overlap > soft_minimum_overlap every shift is
\* > -max_overlap + margin.
C3_ShiftAboveBoundOriginal ==
    (pc = "shifted" /\ maxov > cfg.soft_minimum_overlap)
        => shift > -maxov + cfg.margin

\* C3 amended: for max_overlap > soft_minimum_overlap and max_overlap > 0
\* every shift, the fallback's included, is > -max_overlap + margin.
C3_ShiftAboveBound ==
    (pc = "shifted" /\ maxov > cfg.soft_minimum_overlap /\ maxov > 0)
        => shift > -maxov + cfg.margin

\* C3 witness: all candidates were rejected and the fallback produced the shift.
C3_Witness ==
    /\ pc = "shifted"
    /\ branch = "fallback"
    /\ maxov > cfg.soft_minimum_overlap
    /\ maxov > 0

\* C6: the loop draws at most 100 candidates, returns the first accepted
\* one, and after 100 rejections returns silence with a warning and no
\* further draw.
C6_BoundedRejection ==
    /\ attempts <= 100
    /\ draws <= 2 * 100 + 1
    /\ branch = "accepted" =>
          /\ attempts < 100
          /\ draws = 2 * (attempts + 1)
          /\ shift > -maxov + cfg.margin
          /\ ~warned
    /\ branch = "fallback" =>
          /\ attempts = 100
          /\ draws = 2 * 100 + 1
          /\ warned
          /\ cfg.minimum_silence <= shift /\ shift < cfg.maximum_silence
          /\ pc = "shifted"
    /\ warned => branch = "fallback"
    /\ attempts > 0 =>
          maxov > cfg.hard_minimum_overlap /\ maxov > cfg.soft_minimum_overlap

\* C6 witness: the fallback was taken after 100 rejected candidates.
C6_Witness ==
    /\ pc = "shifted"
    /\ branch = "fallback"
    /\ attempts = 100
    /\ warned

\* C7: for max_overlap <= hard_minimum_overlap the shift is >= margin and
\* lies in [minimum_silence, maximum_silence).
C7_DegenerateWindow ==
    (pc = "shifted" /\ maxov <= cfg.hard_minimum_overlap) =>
        /\ shift >= cfg.margin
        /\ cfg.minimum_silence <= shift
        /\ shift < cfg.maximum_silence

\* C7 witness: silence was sampled on the clamp's boundary, shift = margin.
C7_Witness ==
    /\ pc = "shifted"
    /\ maxov <= cfg.hard_minimum_overlap
    /\ branch = "silence"
    /\ shift = cfg.margin

\* C8: the deterministic branch is taken exactly for hard_minimum_overlap <
\* max_overlap <= soft_minimum_overlap, draws nothing and returns
\* -max_overlap + margin; max_overlap <= hard_minimum_overlap gives silence.
C8_StrictOrder ==
    pc = "shifted" =>
        /\ branch = "deterministic" <=>
              (cfg.hard_minimum_overlap < maxov /\ maxov <= cfg.soft_minimum_overlap)
        /\ branch = "deterministic" => (draws = 0 /\ shift = -maxov + cfg.margin)
        /\ maxov <= cfg.hard_minimum_overlap => branch = "silence"

\* C8 witness: the deterministic branch returned a real overlap.
C8_Witness ==
    /\ pc = "shifted"
    /\ branch = "deterministic"
    /\ maxov >= 1
    /\ shift < 0

\* C4: get_allowed_max_overlap does not decrease when max_concurrent_spk grows.
C4_Monotone ==
    Len(ovRes) = 2 => ovRes[1] <= ovRes[2]

\* C4 witness: the larger bound pads with sentinels, reaches an utterance of
\* the current speaker and allows strictly more overlap.
C4_Witness ==
    /\ Len(ovRes) = 2
    /\ ovIn.bounds[1] < ovIn.bounds[2]
    /\ Len(ovIn.speaker_end) < ovIn.bounds[2]
    /\ \E i \in DOMAIN ovIn.speaker_ids : ovIn.speaker_ids[i] = ovIn.current_speaker_id
    /\ ovRes[1] < ovRes[2]

PaddedEnds(x, K) == x.speaker_end \o [i \in 1..(K - Len(x.speaker_end)) |-> 0]

\* the K-th largest element of a sequence with at least K elements
KthLargest(a, K) ==
    CHOOSE v \in {a[i] : i \in DOMAIN a} :
        /\ Cardinality({i \in DOMAIN a : a[i] > v}) < K
        /\ Cardinality({i \in DOMAIN a : a[i] >= v}) >= K

OwnEnds(x) ==
    {x.speaker_end[i] : i \in {j \in DOMAIN x.speaker_end :
                                  x.speaker_ids[j] = x.current_speaker_id}}

\* the end time the new utterance may reach back to
Reach(x, K) ==
    LET kth == KthLargest(PaddedEnds(x, K), K)
    IN  IF \E e \in OwnEnds(x) : e >= kth
        THEN CHOOSE e \in OwnEnds(x) : \A f \in OwnEnds(x) : f <= e
        ELSE kth

\* C9: for non-negative end times the result is non-negative, it is the
\* largest end time minus the end time at the effective-count position, and
\* get_allowed_max_overlap([1], ['a'], 2, 'a') is 0.
C9_NonNegative ==
    \A n \in DOMAIN ovRes :
        (\A i \in DOMAIN ovIn.speaker_end : ovIn.speaker_end[i] >= 0) =>
            /\ ovRes[n] >= 0
            /\ ovRes[n] = SeqMax(PaddedEnds(ovIn, ovIn.bounds[n]))
                            - Reach(ovIn, ovIn.bounds[n])
            /\ (/\ ovIn.speaker_end = <<1>>
                /\ ovIn.speaker_ids = <<"a">>
                /\ ovIn.current_speaker_id = "a"
                /\ ovIn.bounds[n] = 2) => ovRes[n] = 0

\* C9 witness: the documented call has returned 0.
C9_Witness ==
    /\ ovIn.speaker_end = <<1>>
    /\ ovIn.speaker_ids = <<"a">>
    /\ ovIn.current_speaker_id = "a"
    /\ ovIn.bounds[1] = 2
    /\ Len(ovRes) >= 1
    /\ ovRes[1] = 0

\* C5: 'one_random' without a channel count or without a generator raises,
\* returns no channel and draws from no generator the caller did not pass.
C5_MissingCapabilityIsFatal ==
    (/\ chOut.kind # "pending"
     /\ chArgs.channel_slice.type = "one_random"
     /\ (chArgs.total_num_channels = NoneInt \/ chArgs.rng = "None"))
        => (chOut.kind = "ValueError" /\ chOut.drew_from # "default_rng")

\* C10: the early and tail masks partition every RIR at rir_stop_sample, and
\* the early and tail convolutions have length L + R - 1 and sum sample-wise
\* to the full reverberated signal.
C10_Additivity ==
    (/\ rpc = "done"
     /\ example.add_speech_reverberation_early
     /\ example.add_speech_reverberation_tail) =>
        \A k \in DOMAIN h : \A d \in DOMAIN h[k] :
            LET stop == RirStopSample(example)[k]
                full == audio_data.original_reverberated[k][d]
                early == audio_data.original_reverberation_early[k][d]
                tail == audio_data.original_reverberation_tail[k][d]
                length == Len(example.original_source[k]) + Len(h[k][d]) - 1
            IN  /\ \A t \in DOMAIN h[k][d] :
                      /\ h_early[k][d][t] + h_tail[k][d][t] = h[k][d][t]
                      /\ t - 1 >= stop => h_early[k][d][t] = 0
                      /\ t - 1 < stop => h_tail[k][d][t] = 0
                /\ Len(full) = length /\ Len(early) = length /\ Len(tail) = length
                /\ \A n \in 1..length : early[n] + tail[n] = full[n]

\* C10 witness: a stop sample strictly inside the RIR, with energy on both sides.
C10_Witness ==
    /\ rpc = "done"
    /\ example.add_speech_reverberation_early
    /\ example.add_speech_reverberation_tail
    /\ \E k \in DOMAIN h : \E d \in DOMAIN h[k] :
         /\ RirStopSample(example)[k] > 0
         /\ RirStopSample(example)[k] < Len(h[k][d])
         /\ \E t \in DOMAIN h[k][d] : h_early[k][d][t] # 0
         /\ \E t \in DOMAIN h[k][d] : h_tail[k][d][t] # 0

\* the largest |row[t]|, the 0-based index of its first occurrence, and the
\* 0-based indices up to that peak whose |row[i]| exceeds level_ratio * max|row|
MaxAbs(row) == SeqMax([t \in DOMAIN row |-> Abs(row[t])])
FirstPeak(row) ==
    CHOOSE i \in 0..(Len(row) - 1) :
        /\ Abs(row[i + 1]) = MaxAbs(row)
        /\ \A j \in 0..(i - 1) : Abs(row[j + 1]) # MaxAbs(row)
Exceeding(row, r) ==
    {i \in 0..FirstPeak(row) : r[2] * Abs(row[i + 1]) > r[1] * MaxAbs(row)}
IsOnset(row, r, i) == i \in Exceeding(row, r) /\ \A j \in Exceeding(row, r) : i <= j
Channels(a) == Flatten(a.h)
IsMinimum(m, f) == (\E d \in DOMAIN f : f[d] = m) /\ (\A d \in DOMAIN f : m <= f[d])

\* C11: what get_rir_start_sample returns for a 1-D RIR is the smallest index
\* up to the first peak of |h| whose sample exceeds level_ratio * max|h|, and
\* for a multi-channel RIR it is the minimum of these per-channel onsets.
C11_OnsetExceedsThreshold ==
    rirOut.kind = "returned" =>
        \E onsets \in [DOMAIN Channels(rirIn) -> 0..MaxOnsetCells] :
             /\ \A d \in DOMAIN onsets :
                  IsOnset(Channels(rirIn)[d], rirIn.level_ratio, onsets[d])
             /\ IsMinimum(rirOut.value, onsets)

====
